---- MODULE Spec2Model ----
(***************************************************************************)
(* A model of the schedule parser of run.py: the window resolver           *)
(* (parse_window), the row extractor (parse_rows, add_row), the time       *)
(* normalizer (normalize_time_token, normalize_time_range) and the         *)
(* candidate selector (looks_like_schedule, fetch_latest_email).           *)
(*                                                                         *)
(* Text is modelled after tokenisation: a line is the record of what the   *)
(* module's regular expressions capture from it (WINDOW_RE, DAY_HEADER_RE, *)
(* TIME_ROW_RE), a time token is the sequence of its characters, a tail is *)
(* the sequence of its whitespace-separated words.  An optional value is   *)
(* the empty sequence (None) or a one-element sequence.                    *)
(***************************************************************************)
EXTENDS Integers, Sequences, FiniteSets, TLC

VARIABLES
    pc,         \* position of the running function
    now,        \* datetime.now(TZ), as a calendar date
    subject,    \* parse_rows' subject: a sequence of lines
    body,       \* parse_rows' body: a sequence of lines
    filter_by_name,
    window,     \* parse_window's result: <<>> before the call, else <<[start, end]>>
    idx,        \* number of lines of the loop of parse_rows already consumed
    current_date,     \* the cursor: <<>> (None) or <<date>>
    current_weekday,  \* the cursor: <<>> (None) or <<weekday name>>
    rows,       \* rows appended by add_row
    unique,     \* parse_rows' return value
    tok1, tok2, \* normalize_time_range's arguments
    timeStr,    \* normalize_time_range's result
    resp,       \* the messages the list call returned, in the provider's order
    msgs,       \* fetch_latest_email's msgs after the sort
    mi,         \* number of messages of the loop already consumed
    best,       \* <<>> (None) or <<message>>
    best_score,
    fetched     \* fetch_latest_email's return value: <<>> for (None, None, "")

vars == <<pc, now, subject, body, filter_by_name, window, idx, current_date,
          current_weekday, rows, unique, tok1, tok2, timeStr, resp, msgs, mi,
          best, best_score, fetched>>

rowVars == <<now, subject, body, filter_by_name, window, idx, current_date,
             current_weekday, rows, unique>>
timeVars == <<tok1, tok2, timeStr>>
fetchVars == <<resp, msgs, mi, best, best_score, fetched>>

None == <<>>
Some(x) == <<x>>

(***************************************************************************)
(* datetime.date                                                           *)
(***************************************************************************)
IsLeap(y) == (y % 4 = 0) /\ ((y % 100 # 0) \/ (y % 400 = 0))

DaysInMonth(y, m) ==
    CASE m \in {1, 3, 5, 7, 8, 10, 12} -> 31
      [] m \in {4, 6, 9, 11} -> 30
      [] OTHER -> IF IsLeap(y) THEN 29 ELSE 28

\* date(y, m, d) raises ValueError exactly when this is false
DateValid(y, m, d) ==
    /\ y \in 1..9999
    /\ m \in 1..12
    /\ d >= 1
    /\ d <= DaysInMonth(y, m)

MkDate(y, m, d) == [year |-> y, month |-> m, day |-> d]

RECURSIVE DaysBeforeMonth(_, _)
DaysBeforeMonth(y, m) ==
    IF m <= 1 THEN 0 ELSE DaysBeforeMonth(y, m - 1) + DaysInMonth(y, m - 1)

\* date.toordinal(): 0001-01-01 is day 1
ToOrdinal(d) ==
    LET y1 == d.year - 1
    IN  y1 * 365 + (y1 \div 4) - (y1 \div 100) + (y1 \div 400)
          + DaysBeforeMonth(d.year, d.month) + d.day

\* (a - b).days
DiffDays(a, b) == ToOrdinal(a) - ToOrdinal(b)

DateLE(a, b) == ToOrdinal(a) <= ToOrdinal(b)
DateLT(a, b) == ToOrdinal(a) < ToOrdinal(b)

\* date.weekday(): Monday is 0
Weekday(d) == (ToOrdinal(d) + 6) % 7

\* d + timedelta(days=n)
RECURSIVE AddDays(_, _)
AddDays(d, n) ==
    IF n = 0 THEN d
    ELSE IF n > 0 THEN
        LET left == DaysInMonth(d.year, d.month) - d.day
        IN  IF n <= left THEN MkDate(d.year, d.month, d.day + n)
            ELSE IF d.month = 12
                 THEN AddDays(MkDate(d.year + 1, 1, 1), n - left - 1)
                 ELSE AddDays(MkDate(d.year, d.month + 1, 1), n - left - 1)
    ELSE
        IF -n < d.day THEN MkDate(d.year, d.month, d.day + n)
        ELSE IF d.month = 1
             THEN AddDays(MkDate(d.year - 1, 12, 31), n + d.day)
             ELSE AddDays(MkDate(d.year, d.month - 1,
                                 DaysInMonth(d.year, d.month - 1)), n + d.day)

\* (date(y, m, 1) + timedelta(days=40)).replace(day=1) - timedelta(days=1)
LastOfMonth(y, m) ==
    LET plus40 == AddDays(MkDate(y, m, 1), 40)
    IN  AddDays(MkDate(plus40.year, plus40.month, 1), -1)

(***************************************************************************)
(* Lines.  A line is what the patterns capture from it:                    *)
(*   kind "window": WINDOW_RE matches; word is the letters of the start    *)
(*      phrase (a month name or any other word), sday and eday the digits  *)
(*      of the start phrase and of end_day (\d{1,2}: 0..99);               *)
(*   kind "header": DAY_HEADER_RE matches; daynum (\d{1,2}), weekday, and  *)
(*      in time the time range of rest, if rest holds one;                 *)
(*   kind "time": the line holds a time range and is no day header;        *)
(*   kind "other": no pattern matches;  kind "blank": an empty line.       *)
(* A time range is [t1, t2, tail]: two time tokens and the words after.    *)
(***************************************************************************)
NoTime == None

WindowLine(word, s, e) ==
    [kind |-> "window", word |-> word, sday |-> s, eday |-> e,
     daynum |-> 0, weekday |-> "", time |-> NoTime]
HeaderLine(d, wd, t) ==
    [kind |-> "header", word |-> "", sday |-> 0, eday |-> 0,
     daynum |-> d, weekday |-> wd, time |-> t]
TimeLine(t) ==
    [kind |-> "time", word |-> "", sday |-> 0, eday |-> 0,
     daynum |-> 0, weekday |-> "", time |-> t]
OtherLine ==
    [kind |-> "other", word |-> "", sday |-> 0, eday |-> 0,
     daynum |-> 0, weekday |-> "", time |-> NoTime]
BlankLine ==
    [kind |-> "blank", word |-> "", sday |-> 0, eday |-> 0,
     daynum |-> 0, weekday |-> "", time |-> NoTime]

\* WINDOW_RE.search(text): the first match in the text, or None
RECURSIVE WINDOW_RE_search(_)
WINDOW_RE_search(text) ==
    IF text = <<>> THEN None
    ELSE IF Head(text).kind = "window" THEN Some(Head(text))
    ELSE WINDOW_RE_search(Tail(text))

(***************************************************************************)
(* parse_window                                                            *)
(***************************************************************************)
\* month_from_text: the month whose full English name occurs in the phrase,
\* 9 for "sept"/"sep", else None (0 here).  The phrase is one word.
month_from_text(s) ==
    CASE s \in {"January", "january"} -> 1
      [] s \in {"February", "february"} -> 2
      [] s \in {"March"} -> 3
      [] s \in {"April"} -> 4
      [] s \in {"May", "may"} -> 5
      [] s \in {"June", "june"} -> 6
      [] s \in {"July"} -> 7
      [] s \in {"August"} -> 8
      [] s \in {"September", "Sept", "Sep"} -> 9
      [] s \in {"October"} -> 10
      [] s \in {"November"} -> 11
      [] s \in {"December", "december"} -> 12
      [] OTHER -> 0

\* get_week_start(now).date()
get_week_start(dt) == AddDays(dt, -Weekday(dt))

\* ResolveStart with the two thresholds exchanged
ResolveStartSwapped(month, start_day, dt) ==
    IF ~DateValid(dt.year, month, start_day) THEN None
    ELSE IF DiffDays(MkDate(dt.year, month, start_day), dt) > 250
    THEN (IF DateValid(dt.year - 1, month, start_day)
          THEN Some(MkDate(dt.year - 1, month, start_day)) ELSE None)
    ELSE IF DiffDays(dt, MkDate(dt.year, month, start_day)) > 120
    THEN (IF DateValid(dt.year + 1, month, start_day)
          THEN Some(MkDate(dt.year + 1, month, start_day)) ELSE None)
    ELSE Some(MkDate(dt.year, month, start_day))

\* lines 189-193: the start date, or None when a date(...) call raises ValueError
ResolveStart(month, start_day, dt) ==
    IF ~DateValid(dt.year, month, start_day) THEN None
    ELSE
      LET s0 == MkDate(dt.year, month, start_day)
          shiftBack == DiffDays(s0, dt) > 120
      IN  IF shiftBack /\ ~DateValid(dt.year - 1, month, start_day) THEN None
          ELSE
            LET s1 == IF shiftBack THEN MkDate(dt.year - 1, month, start_day) ELSE s0
                shiftFwd == DiffDays(dt, s1) > 250
            IN  IF shiftFwd /\ ~DateValid(dt.year + 1, month, start_day) THEN None
                ELSE IF shiftFwd THEN Some(MkDate(dt.year + 1, month, start_day))
                ELSE Some(s1)

\* ResolveEnd without the roll to the next month of lines 200-207
ResolveEndSameMonth(start, month, end_day) ==
    IF DateValid(start.year, month, end_day)
    THEN MkDate(start.year, month, end_day)
    ELSE LastOfMonth(start.year, month)

\* lines 194-207: the end date for a resolved start
ResolveEnd(start, month, end_day) ==
    LET end0 == IF DateValid(start.year, month, end_day)
                THEN MkDate(start.year, month, end_day)
                ELSE LastOfMonth(start.year, month)
    IN  IF DateLT(end0, start)
        THEN LET nm_year == start.year + (IF month = 12 THEN 1 ELSE 0)
                 nm_month == IF month = 12 THEN 1 ELSE month + 1
             IN  IF DateValid(nm_year, nm_month, end_day)
                 THEN MkDate(nm_year, nm_month, end_day)
                 ELSE LastOfMonth(nm_year, nm_month)
        ELSE end0

\* parse_window(text, now): <<start, end>>, or None when it raises ValueError
parse_window(text, dt) ==
    LET m == WINDOW_RE_search(text)
    IN  IF m = None
        THEN LET ws == get_week_start(dt) IN <<ws, AddDays(ws, 6)>>
        ELSE
          LET mf == month_from_text(m[1].word)
              month == IF mf # 0 THEN mf ELSE dt.month
              start == ResolveStart(month, m[1].sday, dt)
          IN  IF start = None THEN None
              ELSE <<start[1], ResolveEnd(start[1], month, m[1].eday)>>

(***************************************************************************)
(* Time normalizer.  A token is the sequence of its characters.            *)
(***************************************************************************)
Digits == {"0", "1", "2", "3", "4", "5", "6", "7", "8", "9"}

DigitVal(c) ==
    CASE c = "0" -> 0 [] c = "1" -> 1 [] c = "2" -> 2 [] c = "3" -> 3
      [] c = "4" -> 4 [] c = "5" -> 5 [] c = "6" -> 6 [] c = "7" -> 7
      [] c = "8" -> 8 [] c = "9" -> 9

DigitChar(n) ==
    CASE n = 0 -> "0" [] n = 1 -> "1" [] n = 2 -> "2" [] n = 3 -> "3"
      [] n = 4 -> "4" [] n = 5 -> "5" [] n = 6 -> "6" [] n = 7 -> "7"
      [] n = 8 -> "8" [] n = 9 -> "9"

\* str.upper(), on the characters a time token can hold
UpperChar(c) ==
    CASE c = "a" -> "A" [] c = "m" -> "M" [] c = "p" -> "P" [] OTHER -> c

Upper(s) == [i \in 1..Len(s) |-> UpperChar(s[i])]

\* str.strip()
RECURSIVE LStrip(_)
LStrip(s) == IF s # <<>> /\ Head(s) = " " THEN LStrip(Tail(s)) ELSE s
RECURSIVE RStrip(_)
RStrip(s) ==
    IF s # <<>> /\ s[Len(s)] = " " THEN RStrip(SubSeq(s, 1, Len(s) - 1)) ELSE s
Strip(s) == RStrip(LStrip(s))

\* str.replace(" ", "")
RECURSIVE RemoveSpaces(_)
RemoveSpaces(s) ==
    IF s = <<>> THEN <<>>
    ELSE IF Head(s) = " " THEN RemoveSpaces(Tail(s))
    ELSE <<Head(s)>> \o RemoveSpaces(Tail(s))

\* int(h) of one or two digits
IntOf(ds) == IF Len(ds) = 1 THEN DigitVal(ds[1])
             ELSE 10 * DigitVal(ds[1]) + DigitVal(ds[2])

\* f"{h}" for 0 <= h <= 99
StrOfInt(n) == IF n < 10 THEN <<DigitChar(n)>>
               ELSE <<DigitChar(n \div 10), DigitChar(n % 10)>>

AllDigits(s) == \A i \in 1..Len(s) : s[i] \in Digits

Meridiems == {<<"A", "M">>, <<"P", "M">>}

\* One way to match (?P<h>\d{1,2})(?::?(?P<m>\d{2}))?(?P<ampm>AM|PM)?$ against
\* s: h takes hlen digits and the minutes group is taken or not.  None when
\* this way fails, else the groups (an absent group is the empty sequence).
TokenMatchWith(s, hlen, withM) ==
    IF Len(s) < hlen \/ ~AllDigits(SubSeq(s, 1, hlen)) THEN None
    ELSE
      LET p0 == hlen + 1
          p1 == IF withM /\ p0 <= Len(s) /\ s[p0] = ":" THEN p0 + 1 ELSE p0
          mOk == withM => (p1 + 1 <= Len(s) /\ AllDigits(SubSeq(s, p1, p1 + 1)))
          p2 == IF withM THEN p1 + 2 ELSE p0
          rest == SubSeq(s, p2, Len(s))
      IN  IF mOk /\ (rest = <<>> \/ rest \in Meridiems)
          THEN Some([h |-> SubSeq(s, 1, hlen),
                     m |-> IF withM THEN SubSeq(s, p1, p1 + 1) ELSE <<>>,
                     ampm |-> rest])
          ELSE None

\* the first of four match attempts that succeeds, else None
FirstMatch(a, b, c, d) ==
    IF a # None THEN a ELSE IF b # None THEN b ELSE IF c # None THEN c ELSE d

\* re.match of that pattern: greedy quantifiers, so the first way that
\* succeeds among (2 digits, minutes), (2 digits), (1 digit, minutes), (1 digit)
TokenMatch(s) ==
    FirstMatch(TokenMatchWith(s, 2, TRUE), TokenMatchWith(s, 2, FALSE),
               TokenMatchWith(s, 1, TRUE), TokenMatchWith(s, 1, FALSE))

\* re.match(r"\d{3,4}(AM|PM)?$", s)
CompactMatch(s) ==
    \E n \in {3, 4} :
        /\ Len(s) >= n
        /\ AllDigits(SubSeq(s, 1, n))
        /\ (SubSeq(s, n + 1, Len(s)) = <<>> \/ SubSeq(s, n + 1, Len(s)) \in Meridiems)

\* line 251: tok.strip().upper().replace(" ", "")
CanonToken(tok) == RemoveSpaces(Upper(Strip(tok)))

\* lines 258-259: the minutes, given the m group (empty when absent)
MinutesOf(s, mgroup) ==
    IF mgroup # <<>> THEN mgroup
    ELSE IF Len(s) <= 2 THEN <<"0", "0">>
    ELSE IF CompactMatch(s) THEN SubSeq(s, Len(s) - 2, Len(s) - 1)
    ELSE <<"0", "0">>

\* line 260
FormatTime(h, mm, ampm) ==
    IF ampm # <<>>
    THEN StrOfInt(h) \o <<":">> \o mm \o <<" ">> \o ampm
    ELSE StrOfInt(h) \o <<":">> \o mm

\* lines 253-260, for s of line 251 and m the match of line 252
TokenText(tok, s, m, fallback_ampm) ==
    IF m = None THEN Strip(tok)
    ELSE FormatTime(IntOf(m[1].h), MinutesOf(s, m[1].m),
                    IF m[1].ampm # <<>> THEN m[1].ampm ELSE fallback_ampm)

\* normalize_time_token(tok, fallback_ampm); fallback_ampm is None or an
\* upper-case meridiem
normalize_time_token(tok, fallback_ampm) ==
    TokenText(tok, CanonToken(tok), TokenMatch(CanonToken(tok)), fallback_ampm)

\* re.search(r"(AM|PM)", t, re.IGNORECASE): the first meridiem in t, upper-cased
RECURSIVE FindMeridiem(_)
FindMeridiem(t) ==
    IF Len(t) < 2 THEN None
    ELSE IF Upper(SubSeq(t, 1, 2)) \in Meridiems THEN Upper(SubSeq(t, 1, 2))
    ELSE FindMeridiem(Tail(t))

\* RangeText without the fallback for the first token
RangeTextNoFallback(t1, t2, fb) ==
    normalize_time_token(t1, None) \o <<" ", "-", " ">> \o normalize_time_token(t2, fb)

\* lines 266-269, for fb of line 265
RangeText(t1, t2, fb) ==
    normalize_time_token(t1, fb) \o <<" ", "-", " ">> \o normalize_time_token(t2, fb)

\* normalize_time_range(t1, t2)
normalize_time_range(t1, t2) == RangeText(t1, t2, FindMeridiem(t2))

(***************************************************************************)
(* Field splitter.  A tail is the sequence of its words; the text is the   *)
(* words joined by single spaces (parse_rows collapses whitespace).  The   *)
(* words of the model carry no punctuation, so \b...\b matches whole words *)
(* and strip(" ,;-") removes nothing.                                      *)
(***************************************************************************)
\* sorted(KNOWN_SITES, key=len, reverse=True).  Names of equal length keep
\* the set's iteration order, which the code does not fix: the tails of the
\* model never hold two sites of equal length.
SitesByLength ==
    <<[name |-> "Sierra Vista", words |-> <<"Sierra", "Vista">>],
      [name |-> "Aeroterra", words |-> <<"Aeroterra">>],
      [name |-> "Guadalupe", words |-> <<"Guadalupe">>],
      [name |-> "Chandler", words |-> <<"Chandler">>],
      [name |-> "Superior", words |-> <<"Superior">>],
      [name |-> "Tempe", words |-> <<"Tempe">>],
      [name |-> "CTEC", words |-> <<"CTEC">>],
      [name |-> "Mesa", words |-> <<"Mesa">>]>>

\* m.start() < 40
SiteColumnLimit == 40

\* the offset in " ".join(ws) of word k
RECURSIVE WordOffset(_, _)
WordOffset(ws, k) ==
    IF k <= 1 THEN 0 ELSE WordOffset(ws, k - 1) + Len(ws[k - 1]) + 1

\* positions k where the words of site start in ws
SitePositions(ws, site) ==
    {k \in 1..Len(ws) :
        /\ k + Len(site.words) - 1 <= Len(ws)
        /\ SubSeq(ws, k, k + Len(site.words) - 1) = site.words}

Min(S) == CHOOSE x \in S : \A y \in S : x <= y

\* the loop of first_site_token from site number i on; None when no site fits
RECURSIVE SiteFrom(_, _)
SiteFrom(ws, i) ==
    IF i > Len(SitesByLength) THEN None
    ELSE
      LET site == SitesByLength[i]
          pos == SitePositions(ws, site)
      IN  IF pos # {} /\ WordOffset(ws, Min(pos)) < SiteColumnLimit
          THEN LET k == Min(pos)
               IN  Some([location |-> site.name,
                         rest |-> SubSeq(ws, 1, k - 1)
                                    \o SubSeq(ws, k + Len(site.words), Len(ws))])
          ELSE SiteFrom(ws, i + 1)

\* lines 221-226: the fallback, taken when no site fits
SiteOrFirstWord(ws, found) ==
    IF found # None THEN found[1]
    ELSE IF ws # <<>> THEN [location |-> Head(ws), rest |-> Tail(ws)]
    ELSE [location |-> "", rest |-> <<>>]

\* first_site_token(tail): [location, rest]
first_site_token(ws) == SiteOrFirstWord(ws, SiteFrom(ws, 1))

\* rest.upper().find("WORKSHOP") lands in this word
IsWorkshop(w) == w \in {"WORKSHOP", "Workshop", "workshop"}

\* TASK_KEYWORDS_RE matches in this word
IsTaskKeyword(w) ==
    \/ IsWorkshop(w)
    \/ w \in {"closed", "Closed", "closure", "popup", "pop-up", "shuttle",
              "event", "Event", "debrief", "key", "keys"}

\* the first position of a set of positions, or 0 when there is none
FirstOf(hits) == IF hits = {} THEN 0 ELSE Min(hits)

\* line 237: the word where "WORKSHOP" is found, or 0
FindWorkshop(ws) == FirstOf({k \in 1..Len(ws) : IsWorkshop(ws[k])})

\* line 240: the word where TASK_KEYWORDS_RE first matches, or 0
FindTaskKeyword(ws) == FirstOf({k \in 1..Len(ws) : IsTaskKeyword(ws[k])})

\* split_people_task(rest): [people, task], each a sequence of words
split_people_task(rest) ==
    IF rest = <<>> THEN [people |-> <<>>, task |-> <<>>]
    ELSE
      LET w == FindWorkshop(rest)
          k == FindTaskKeyword(rest)
      IN  IF w # 0
          THEN [people |-> SubSeq(rest, 1, w - 1), task |-> SubSeq(rest, w, Len(rest))]
          ELSE IF k # 0
          THEN [people |-> SubSeq(rest, 1, k - 1), task |-> SubSeq(rest, k, Len(rest))]
          ELSE [people |-> rest, task |-> <<>>]

(***************************************************************************)
(* Row extractor                                                           *)
(***************************************************************************)
\* str.capitalize() of a weekday name
Capitalize(wd) ==
    CASE wd \in {"Monday", "monday", "MONDAY"} -> "Monday"
      [] wd \in {"Tuesday", "tuesday"} -> "Tuesday"
      [] wd \in {"Wednesday", "wednesday"} -> "Wednesday"
      [] wd \in {"Thursday", "thursday"} -> "Thursday"
      [] wd \in {"Friday", "friday"} -> "Friday"
      [] wd \in {"Saturday", "saturday"} -> "Saturday"
      [] wd \in {"Sunday", "sunday"} -> "Sunday"

\* add_row's appended record, for time_str of line 331.  weekday is never
\* None where add_row is called, so day_name is weekday.  The title is the
\* task, or else "<location or 'Shift'> <time_str>", kept as its parts.
RowRecord(d, weekday, time_str, location, people, task) ==
    [title |-> IF task # <<>>
               THEN [task |-> task, loc |-> "", time |-> <<>>]
               ELSE [task |-> <<>>,
                     loc |-> IF location # "" THEN location ELSE "Shift",
                     time |-> time_str],
     weekday |-> weekday,
     date |-> d,
     time |-> time_str,
     location |-> location,
     people |-> people,
     task |-> task]

\* add_row(results, d, weekday, t1, t2, location, people, task): the new row
NewRow(d, weekday, t1, t2, location, people, task) ==
    RowRecord(d, weekday, normalize_time_range(t1, t2), location, people, task)

\* lines 302-303 and 310-311, for location, tail_after_loc of first_site_token
RowAfterLocation(d, weekday, t, location, pt) ==
    NewRow(d, weekday, t.t1, t.t2, location, pt.people, pt.task)

RowAtSite(d, weekday, t, loc) ==
    RowAfterLocation(d, weekday, t, loc.location, split_people_task(loc.rest))

\* lines 300-303 and 308-311: the row of a time-range match
RowOf(d, weekday, t) == RowAtSite(d, weekday, t, first_site_token(t.tail))

\* TIME_ROW_RE.search: a time range followed by \s+ and a non-empty tail
TIME_ROW_RE_search(t) == IF t # None /\ t[1].tail # <<>> THEN t ELSE None

\* lines 288-294: the date of a day header
HeaderDate(window_start, daynum) ==
    IF DateValid(window_start.year, window_start.month, daynum)
    THEN MkDate(window_start.year, window_start.month, daynum)
    ELSE LET y == window_start.year + (IF window_start.month = 12 THEN 1 ELSE 0)
             mth == IF window_start.month = 12 THEN 1 ELSE window_start.month + 1
         IN  LastOfMonth(y, mth)

\* lines 295-303: the cursor and the rows after a day header resolved to
\* candidate, mt being the match of line 298
AfterHeader(candidate, wd, mt, rs) ==
    [cd |-> Some(candidate), cw |-> Some(wd),
     rows |-> IF mt # None THEN Append(rs, RowOf(candidate, wd, mt[1])) ELSE rs]

\* AfterPlain resetting the cursor on a line that yields no row
AfterPlainResets(mt, cd, cw, rs) ==
    IF mt # None /\ cd # None
    THEN [cd |-> cd, cw |-> cw, rows |-> Append(rs, RowOf(cd[1], cw[1], mt[1]))]
    ELSE [cd |-> None, cw |-> None, rows |-> rs]

\* lines 306-312: the cursor and the rows after a line that is no day header,
\* mt being the match of line 306
AfterPlain(mt, cd, cw, rs) ==
    IF mt # None /\ cd # None
    THEN [cd |-> cd, cw |-> cw, rows |-> Append(rs, RowOf(cd[1], cw[1], mt[1]))]
    ELSE [cd |-> cd, cw |-> cw, rows |-> rs]

\* one iteration of the loop of parse_rows over line ln:
\* the cursor and the row list after it
LineStep(ln, window_start, cd, cw, rs) ==
    IF ln.kind = "blank" THEN [cd |-> cd, cw |-> cw, rows |-> rs]
    ELSE IF ln.kind = "header"
    THEN AfterHeader(HeaderDate(window_start, ln.daynum), Capitalize(ln.weekday),
                     TIME_ROW_RE_search(ln.time), rs)
    ELSE AfterPlain(IF ln.kind = "time" THEN TIME_ROW_RE_search(ln.time) ELSE None,
                    cd, cw, rs)

\* re.search(rf"\b{YOUR_NAME}\b", people, re.IGNORECASE), YOUR_NAME = "Jeshad"
NameMatches(people) ==
    \E i \in 1..Len(people) : people[i] \in {"Jeshad", "jeshad", "JESHAD"}

\* line 316
NameFilter(rs, on) ==
    LET keep(r) == NameMatches(r.people)
    IN  IF on THEN SelectSeq(rs, keep) ELSE rs

\* InWindow with the end of the window excluded
InWindowEndExcluded(d, window_start, window_end) ==
    DateLE(window_start, d) /\ DateLT(d, window_end)

\* line 318
InWindow(d, window_start, window_end) ==
    DateLE(window_start, d) /\ DateLE(d, window_end)

WindowFilter(rs, window_start, window_end) ==
    LET keep(r) == InWindow(r.date, window_start, window_end)
    IN  SelectSeq(rs, keep)

\* line 323
RowKey(r) == <<r.date, r.time, r.location, r.people, r.task>>

\* DedupFrom without seen.add(key)
RECURSIVE DedupFromForgets(_, _, _)
DedupFromForgets(rs, seen, acc) ==
    IF rs = <<>> THEN acc
    ELSE IF RowKey(Head(rs)) \notin seen
    THEN DedupFromForgets(Tail(rs), seen, Append(acc, Head(rs)))
    ELSE DedupFromForgets(Tail(rs), seen, acc)

\* lines 320-326, from the state (seen, unique) on
RECURSIVE DedupFrom(_, _, _)
DedupFrom(rs, seen, acc) ==
    IF rs = <<>> THEN acc
    ELSE IF RowKey(Head(rs)) \notin seen
    THEN DedupFrom(Tail(rs), seen \cup {RowKey(Head(rs))}, Append(acc, Head(rs)))
    ELSE DedupFrom(Tail(rs), seen, acc)

Dedup(rs) == DedupFrom(rs, {}, <<>>)

(***************************************************************************)
(* Idle values of the variables a specification does not use               *)
(***************************************************************************)
IdleDate == MkDate(2024, 5, 6)

RowsIdle ==
    /\ now = IdleDate
    /\ subject = <<>>
    /\ body = <<>>
    /\ filter_by_name = FALSE
    /\ window = None
    /\ idx = 0
    /\ current_date = None
    /\ current_weekday = None
    /\ rows = <<>>
    /\ unique = <<>>

TimeIdle ==
    /\ tok1 = <<>>
    /\ tok2 = <<>>
    /\ timeStr = <<>>

FetchIdle ==
    /\ resp = <<>>
    /\ msgs = <<>>
    /\ mi = 0
    /\ best = None
    /\ best_score = 0
    /\ fetched = None

(***************************************************************************)
(* SpecTime: normalize_time_range on every pair of tokens TIME_ROW_RE can  *)
(* capture from a whitespace-collapsed line                                *)
(***************************************************************************)
DigitForms ==
    {<<"9">>, <<"1", "0">>, <<"0", "9">>, <<"8", "3", "0">>,
     <<"1", "2", "3", "0">>, <<"9", ":", "3", "0">>, <<"1", "2", ":", "4", "5">>}

MarkerForms ==
    {<<>>, <<"A", "M">>, <<"P", "M">>, <<"a", "m">>, <<"p", "m">>, <<"P", "m">>}

\* (?:\d{1,2}(?::\d{2})?|\d{3,4})\s*(?:AM|PM|am|pm)?  (re.IGNORECASE)
TimeTokens ==
    {d \o sp \o mk : d \in DigitForms, sp \in {<<>>, <<" ">>}, mk \in MarkerForms}

\* t2 is followed by \s+, so its own \s* keeps no trailing space
T2Tokens == {t \in TimeTokens : t[Len(t)] # " "}

InitTime ==
    /\ pc = "time_call"
    /\ tok1 \in TimeTokens
    /\ tok2 \in T2Tokens
    /\ timeStr = <<>>
    /\ RowsIdle
    /\ FetchIdle

NormalizeTimeRange ==
    /\ pc = "time_call"
    /\ timeStr' = normalize_time_range(tok1, tok2)
    /\ pc' = "time_done"
    /\ UNCHANGED <<tok1, tok2>>
    /\ UNCHANGED rowVars
    /\ UNCHANGED fetchVars

NextTime == NormalizeTimeRange

SpecTime == InitTime /\ [][NextTime]_vars

(***************************************************************************)
(* SpecWindow: parse_window on one text and one "now"                      *)
(***************************************************************************)
\* the day numbers tried in a window header (\d{1,2} allows 0..99)
MaxDay == 31

NowDates ==
    {MkDate(2024, 1, 3), MkDate(2024, 2, 29), MkDate(2024, 5, 6),
     MkDate(2024, 12, 30), MkDate(2023, 8, 15), MkDate(2025, 6, 20)}

\* the word before the day number: a month name, or a word naming no month
StartWords == {"January", "February", "May", "June", "Sept", "December", "week"}

WindowTexts ==
    {<<>>} \cup {<<WindowLine(w, s, e)>> : w \in StartWords, s \in 0..MaxDay, e \in 0..MaxDay}

InitWindow ==
    /\ pc = "window_call"
    /\ now \in NowDates
    /\ body \in WindowTexts
    /\ subject = <<>>
    /\ filter_by_name = FALSE
    /\ window = None
    /\ idx = 0
    /\ current_date = None
    /\ current_weekday = None
    /\ rows = <<>>
    /\ unique = <<>>
    /\ TimeIdle
    /\ FetchIdle

\* parse_window's return (None: it raised ValueError)
SetWindowResult(w) ==
    /\ window' = w
    /\ pc' = IF w = None THEN "window_raised" ELSE "window_done"

ParseWindowCall ==
    /\ pc = "window_call"
    /\ SetWindowResult(parse_window(body, now))
    /\ UNCHANGED <<now, subject, body, filter_by_name, idx, current_date,
                   current_weekday, rows, unique>>
    /\ UNCHANGED timeVars
    /\ UNCHANGED fetchVars

NextWindow == ParseWindowCall

SpecWindow == InitWindow /\ [][NextWindow]_vars

(***************************************************************************)
(* Spec: parse_rows(subject, body, filter_by_name)                         *)
(***************************************************************************)
\* the number of lines of a body after its window header
MaxLines == 3

TailA == <<"Tempe", "Jeshad", "WORKSHOP", "setup">>
TailB == <<"Mesa", "Ana">>

Range(t1, t2, tail) == Some([t1 |-> t1, t2 |-> t2, tail |-> tail])

BodyLines ==
    {HeaderLine(5, "Monday", Range(<<"9", "A", "M">>, <<"5", "P", "M">>, TailA)),
     HeaderLine(11, "sunday", NoTime),
     HeaderLine(12, "Monday", Range(<<"9">>, <<"1", "0", "A", "M">>, TailB)),
     HeaderLine(31, "Friday", NoTime),
     HeaderLine(0, "Friday", NoTime),
     HeaderLine(4, "Thursday", Range(<<"9">>, <<"1", "0", "A", "M">>, TailB)),
     TimeLine(Range(<<"1", "0", "A", "M">>, <<"2", "P", "M">>, TailB)),
     TimeLine(Range(<<"1", "0", " ", "a", "m">>, <<"2", "p", "m">>, TailB)),
     TimeLine(Range(<<"8", "3", "0">>, <<"1", "2", "3", "0">>, <<>>)),
     OtherLine,
     BlankLine}

\* a "now" and the window header the body starts with (none: the empty sequence)
Scenarios ==
    {[now |-> MkDate(2024, 5, 6), head |-> <<>>],
     [now |-> MkDate(2024, 5, 6), head |-> <<WindowLine("May", 5, 11)>>],
     [now |-> MkDate(2024, 6, 20), head |-> <<WindowLine("June", 28, 4)>>],
     [now |-> MkDate(2024, 12, 30), head |-> <<WindowLine("December", 29, 4)>>],
     [now |-> MkDate(2024, 6, 20), head |-> <<WindowLine("June", 31, 5)>>]}

\* the subjects tried with an empty body, where parse_window reads the subject
Subjects == {<<>>, <<WindowLine("May", 5, 11)>>}

SeqsUpTo(S, n) == UNION {[1..k -> S] : k \in 0..n}

Init ==
    /\ pc = "rows_call"
    /\ \E sc \in Scenarios, ls \in SeqsUpTo(BodyLines, MaxLines), sj \in Subjects :
          /\ now = sc.now
          /\ body = sc.head \o ls
          /\ subject = IF sc.head \o ls = <<>> THEN sj ELSE <<OtherLine>>
    /\ filter_by_name \in BOOLEAN
    /\ window = None
    /\ idx = 0
    /\ current_date = None
    /\ current_weekday = None
    /\ rows = <<>>
    /\ unique = <<>>
    /\ TimeIdle
    /\ FetchIdle

\* line 273, for the value parse_window returns (None: it raised)
SetWindow(w) ==
    /\ window' = w
    /\ pc' = IF w = None THEN "rows_raised" ELSE "rows_loop"

\* line 273: parse_window(body or subject or "", now)
CallParseWindow ==
    /\ pc = "rows_call"
    /\ SetWindow(parse_window(IF body # <<>> THEN body ELSE subject, now))
    /\ UNCHANGED <<now, subject, body, filter_by_name, idx, current_date,
                   current_weekday, rows, unique>>
    /\ UNCHANGED timeVars
    /\ UNCHANGED fetchVars

\* the cursor and the rows after one iteration
SetCursor(r) ==
    /\ current_date' = r.cd
    /\ current_weekday' = r.cw
    /\ rows' = r.rows

\* lines 279-312: one iteration of the loop
ProcessLine ==
    /\ pc = "rows_loop"
    /\ idx < Len(body)
    /\ SetCursor(LineStep(body[idx + 1], window[1], current_date, current_weekday, rows))
    /\ idx' = idx + 1
    /\ UNCHANGED <<pc, now, subject, body, filter_by_name, window, unique>>
    /\ UNCHANGED timeVars
    /\ UNCHANGED fetchVars

\* lines 314-327: the filters, the dedup and the return
FinishRows ==
    /\ pc = "rows_loop"
    /\ idx = Len(body)
    /\ unique' = Dedup(WindowFilter(NameFilter(rows, filter_by_name),
                                    window[1], window[2]))
    /\ pc' = "rows_done"
    /\ UNCHANGED <<now, subject, body, filter_by_name, window, idx, current_date,
                   current_weekday, rows>>
    /\ UNCHANGED timeVars
    /\ UNCHANGED fetchVars

Next == CallParseWindow \/ ProcessLine \/ FinishRows

Spec == Init /\ [][Next]_vars

(***************************************************************************)
(* Candidate selector.  A message is [id, subject, text]: text is the body *)
(* text extract_body_text returns, as a sequence of lines (the empty       *)
(* sequence is the empty string).                                          *)
(***************************************************************************)
\* "schedule for" in subject.lower()
SubjectHasWindow(subj) == subj \in {"Schedule for May 5 - 11"}

\* any(k in subject.lower() for k in ("schedule", "shifts"))
SubjectHasKeyword(subj) ==
    subj \in {"Schedule for May 5 - 11", "Weekly Shifts", "Schedule debrief"}

\* "debrief" in subject.lower()
SubjectHasDebrief(subj) == subj \in {"Debrief notes", "Schedule debrief"}

\* len(DAY_HEADER_LINE.findall(body))
CountDayHeaders(text) == Cardinality({i \in 1..Len(text) : text[i].kind = "header"})

\* len(TIME_RANGE_RE.findall(body)): the time range of a line, and the
\* "<day> - <day>" of a window header, which the pattern matches as well
CountTimeRanges(text) ==
    Cardinality({i \in 1..Len(text) : text[i].time # NoTime \/ text[i].kind = "window"})

\* "schedule for" in body.lower()
TextHasWindow(text) == \E i \in 1..Len(text) : text[i].kind = "window"

\* lines 113-120, from the metrics
ScoreOf(day_headers, time_ranges, has_window, has_keyword, debrief) ==
    (IF day_headers >= 2 THEN 3 ELSE day_headers)
      + (IF time_ranges >= 4 THEN 2 ELSE time_ranges)
      + (IF has_window THEN 2 ELSE 0)
      + (IF has_keyword THEN 1 ELSE 0)
      - (IF debrief THEN 3 ELSE 0)

\* looks_like_schedule(subject, text)[0]
looks_like_schedule(subj, text) ==
    ScoreOf(CountDayHeaders(text), CountTimeRanges(text),
            TextHasWindow(text) \/ SubjectHasWindow(subj),
            SubjectHasKeyword(subj), SubjectHasDebrief(subj))

\* line 131
BestScoreInit == -999

\* line 129: list(reversed(sorted(msgs, key=id))); the ids are distinct
RECURSIVE SortNewestFirst(_)
SortNewestFirst(ms) ==
    IF ms = <<>> THEN <<>>
    ELSE LET top == CHOOSE i \in 1..Len(ms) : \A j \in 1..Len(ms) : ms[j].id <= ms[i].id
         IN  <<ms[top]>> \o SortNewestFirst(SubSeq(ms, 1, top - 1) \o SubSeq(ms, top + 1, Len(ms)))

\* the loop without the skip of line 140
SkipsNothing(text) == FALSE

\* line 140: if not text: continue
SkipsMessage(text) == text = <<>>

\* line 143 with >= for >
BetterOrEqual(score, best_so_far) == score >= best_so_far

\* line 143
Better(score, best_so_far) == score > best_so_far

(***************************************************************************)
(* SpecFetch: fetch_latest_email over the messages the list call returns   *)
(***************************************************************************)
\* the number of messages the list call returns
MaxMsgs == 3

ScheduleText ==
    <<WindowLine("May", 5, 11),
      HeaderLine(5, "Monday", Range(<<"9", "A", "M">>, <<"5", "P", "M">>, TailA)),
      TimeLine(Range(<<"1", "0", "A", "M">>, <<"2", "P", "M">>, TailB)),
      HeaderLine(6, "Tuesday", Range(<<"9">>, <<"1", "0", "A", "M">>, TailB)),
      TimeLine(Range(<<"8", "3", "0">>, <<"1", "2", "3", "0">>, <<>>))>>

\* (subject, text) of the messages tried
Contents ==
    {[subject |-> "Weekly Shifts", text |-> ScheduleText],
     [subject |-> "Hello", text |-> <<OtherLine>>],
     [subject |-> "Debrief notes", text |-> <<OtherLine, BlankLine>>],
     [subject |-> "Hello", text |-> <<HeaderLine(11, "sunday", NoTime), OtherLine>>],
     [subject |-> "Schedule for May 5 - 11", text |-> <<>>]}

Message(id, c) == [id |-> id, subject |-> c.subject, text |-> c.text]

\* the sequences of n messages with the ids 1..n in any order
Responses(n) ==
    {[i \in 1..n |-> Message(ids[i], cs[i])] :
        ids \in {f \in [1..n -> 1..n] : \A i, j \in 1..n : f[i] = f[j] => i = j},
        cs \in [1..n -> Contents]}

InitFetch ==
    /\ pc = "fetch_call"
    /\ resp \in UNION {Responses(n) : n \in 0..MaxMsgs}
    /\ msgs = <<>>
    /\ mi = 0
    /\ best = None
    /\ best_score = 0
    /\ fetched = None
    /\ RowsIdle
    /\ TimeIdle

\* lines 124-132
ListMessages ==
    /\ pc = "fetch_call"
    /\ IF resp = <<>>
       THEN /\ pc' = "fetch_done"
            /\ fetched' = None
            /\ UNCHANGED <<msgs, best, best_score>>
       ELSE /\ pc' = "fetch_loop"
            /\ msgs' = SortNewestFirst(resp)
            /\ best' = None
            /\ best_score' = BestScoreInit
            /\ UNCHANGED fetched
    /\ UNCHANGED <<resp, mi>>
    /\ UNCHANGED rowVars
    /\ UNCHANGED timeVars

\* lines 142-146, for the score of message m
Consider(m, score) ==
    IF Better(score, best_score)
    THEN best' = Some(m) /\ best_score' = score
    ELSE UNCHANGED <<best, best_score>>

\* lines 133-146: one iteration of the loop
LoopMessage ==
    /\ pc = "fetch_loop"
    /\ mi < Len(msgs)
    /\ IF SkipsMessage(msgs[mi + 1].text)
       THEN UNCHANGED <<best, best_score>>
       ELSE Consider(msgs[mi + 1],
                     looks_like_schedule(msgs[mi + 1].subject, msgs[mi + 1].text))
    /\ mi' = mi + 1
    /\ UNCHANGED <<pc, resp, msgs, fetched>>
    /\ UNCHANGED rowVars
    /\ UNCHANGED timeVars

\* lines 147-149
ReturnBest ==
    /\ pc = "fetch_loop"
    /\ mi = Len(msgs)
    /\ fetched' = best
    /\ pc' = "fetch_done"
    /\ UNCHANGED <<resp, msgs, mi, best, best_score>>
    /\ UNCHANGED rowVars
    /\ UNCHANGED timeVars

NextFetch == ListMessages \/ LoopMessage \/ ReturnBest

SpecFetch == InitFetch /\ [][NextFetch]_vars

(***************************************************************************)
(* Properties                                                              *)
(***************************************************************************)
\* a <= b on calendar dates, by year, then month, then day
OnOrBefore(a, b) ==
    \/ a.year < b.year
    \/ a.year = b.year /\ a.month < b.month
    \/ a.year = b.year /\ a.month = b.month /\ a.day <= b.day

\* the window header parse_window found in the body, in SpecWindow
HeaderOf(text) == WINDOW_RE_search(text)[1]

MonthOfHeader(h) == IF month_from_text(h.word) # 0 THEN month_from_text(h.word) ELSE now.month

\* C1: parse_window and parse_rows return normally for every text and every
\* "now": no window header and no day-header line, whatever its day numbers,
\* makes them raise.
C1_NeverRaises == pc # "rows_raised"

\* C5: whenever parse_window returns, start <= end, for every matched header
\* (any start and end day numbers, month rollover included) and for the
\* default current week.
C5_StartNotAfterEnd ==
    pc = "window_done" => OnOrBefore(window[1], window[2])

\* a December header whose end day is smaller than its start day: the end
\* rolls over to January of the next year
C5_Witness ==
    /\ pc = "window_done"
    /\ body # <<>>
    /\ HeaderOf(body).eday < HeaderOf(body).sday
    /\ window[1].month = 12
    /\ window[2].month = 1
    /\ window[2].year = window[1].year + 1

\* C6: with s0 = (now.year, month, day), a matched header resolves start's
\* year to now.year - 1 if s0 is more than 120 days after now, to
\* now.year + 1 if s0 is more than 250 days before now, and to now.year
\* otherwise; the two shifts never both apply; and end lies in start's month
\* or the month after it, counted from the shifted start.
C6_YearRule ==
    (pc = "window_done" /\ body # <<>>) =>
        LET h == HeaderOf(body)
            month == MonthOfHeader(h)
            s0 == MkDate(now.year, month, h.sday)
            future == DiffDays(s0, now) > 120
            past == DiffDays(now, s0) > 250
            monthsApart == (window[2].year * 12 + window[2].month)
                             - (window[1].year * 12 + window[1].month)
        IN  /\ window[1].month = month
            /\ window[1].day = h.sday
            /\ window[1].year = IF future THEN now.year - 1
                                ELSE IF past THEN now.year + 1
                                ELSE now.year
            /\ ~(future /\ DiffDays(now, MkDate(now.year - 1, month, h.sday)) > 250)
            /\ monthsApart \in {0, 1}

\* a header more than 250 days in the past: start moves to the next year
C6_Witness ==
    /\ pc = "window_done"
    /\ body # <<>>
    /\ DiffDays(now, MkDate(now.year, MonthOfHeader(HeaderOf(body)), HeaderOf(body).sday)) > 250
    /\ window[1].year = now.year + 1
    /\ window[2].year = now.year + 1

\* the rows parse_rows hands to the dedup: the rows extracted, after the
\* name filter and the window filter
Filtered == WindowFilter(NameFilter(rows, filter_by_name), window[1], window[2])

\* the key of line 323, field by field
KeyOf(r) == <<r.date.year, r.date.month, r.date.day, r.time, r.location, r.people, r.task>>

Max(S) == CHOOSE x \in S : \A y \in S : y <= x

\* the positions of the day headers among the first n lines of the body
HeadersUpTo(n) == {i \in 1..n : body[i].kind = "header"}

\* a line the loop emits nothing for: blank, matched by no pattern, or a
\* time range with nothing after it
Unmatched(ln) ==
    \/ ln.kind \in {"blank", "other", "window"}
    \/ ln.kind = "time" /\ ln.time[1].tail = <<>>

\* what C2 says of the loop iteration over line idx + 1
C2_Iteration ==
    LET ln == body[idx + 1]
        hs == HeadersUpTo(idx + 1)
    IN  /\ ln.kind # "header" => UNCHANGED <<current_date, current_weekday>>
        /\ IF hs = {}
           THEN current_date' = None /\ current_weekday' = None /\ rows' = <<>>
           ELSE /\ current_date' = Some(HeaderDate(window[1], body[Max(hs)].daynum))
                /\ current_weekday' = Some(Capitalize(body[Max(hs)].weekday))
        /\ \/ rows' = rows
           \/ /\ Len(rows') = Len(rows) + 1
              /\ SubSeq(rows', 1, Len(rows)) = rows
              /\ rows'[Len(rows')].date = current_date'[1]
              /\ rows'[Len(rows')].weekday = current_weekday'[1]
        /\ Unmatched(ln) => UNCHANGED <<current_date, current_weekday, rows>>
        /\ (ln.kind = "time" /\ ~Unmatched(ln) /\ hs # {}) => Len(rows') = Len(rows) + 1
        /\ (ln.kind = "header" /\ ln.time # NoTime /\ ln.time[1].tail # <<>>)
              => Len(rows') = Len(rows) + 1

\* C2: the cursor (current_date, current_weekday) changes only when a day
\* header is processed; a row of a plain time-range line carries the date and
\* weekday of the most recent day header before it, a row of a header's own
\* time range carries that header's date; time-range lines before the first
\* day header emit no row; unmatched lines change neither cursor nor rows.
C2_CursorOnlyOnHeader ==
    [][/\ (pc = "rows_loop" /\ idx' = idx + 1) => C2_Iteration
       /\ (pc # "rows_loop" \/ idx' = idx) => UNCHANGED <<current_date, current_weekday, rows>>]_vars

\* a time-range line two lines after its day header, an unmatched line in
\* between: its row carries the header's date
C2_Witness ==
    /\ pc = "rows_loop"
    /\ idx >= 3
    /\ body[idx].kind = "time"
    /\ body[idx - 1].kind = "other"
    /\ body[idx - 2].kind = "header"
    /\ rows # <<>>
    /\ rows[Len(rows)].date = HeaderDate(window[1], body[idx - 2].daynum)

\* C3: every row parse_rows returns is dated within [window.start,
\* window.end], both ends included: extracted rows dated on window.start or
\* on window.end (that pass the name filter) are returned, and no row dated
\* the day after window.end or the day before window.start is.
C3_RowsInsideWindow ==
    pc = "rows_done" =>
        /\ \A i \in 1..Len(unique) :
              /\ OnOrBefore(window[1], unique[i].date)
              /\ OnOrBefore(unique[i].date, window[2])
              /\ unique[i].date # AddDays(window[2], 1)
              /\ unique[i].date # AddDays(window[1], -1)
        /\ \A i \in 1..Len(rows) :
              (/\ rows[i].date \in {window[1], window[2]}
               /\ (filter_by_name => NameMatches(rows[i].people)))
                 => \E j \in 1..Len(unique) : KeyOf(unique[j]) = KeyOf(rows[i])

\* a row dated on window.end is returned and an extracted row dated the day
\* after window.end is not
C3_Witness ==
    /\ pc = "rows_done"
    /\ \E j \in 1..Len(unique) : unique[j].date = window[2]
    /\ \E i \in 1..Len(rows) : rows[i].date = AddDays(window[2], 1)

\* the positions of rs that hold the first occurrence of their key
FirstOccurrences(rs) ==
    {i \in 1..Len(rs) : \A j \in 1..(i - 1) : KeyOf(rs[j]) # KeyOf(rs[i])}

\* the elements of rs at the positions in ps, in order
RECURSIVE Pick(_, _, _)
Pick(rs, ps, i) ==
    IF i > Len(rs) THEN <<>>
    ELSE IF i \in ps THEN <<rs[i]>> \o Pick(rs, ps, i + 1)
    ELSE Pick(rs, ps, i + 1)

\* C4: parse_rows returns no two rows with the same key (date, timeRange,
\* location, people, task); the result is the sequence of first occurrences
\* of each key among the filtered rows, in order; deduplicating the result
\* again, or the filtered rows concatenated with themselves, gives the same.
C4_DedupFirstSeen ==
    pc = "rows_done" =>
        /\ \A i, j \in 1..Len(unique) : KeyOf(unique[i]) = KeyOf(unique[j]) => i = j
        /\ unique = Pick(Filtered, FirstOccurrences(Filtered), 1)
        /\ Dedup(unique) = unique
        /\ Dedup(Filtered \o Filtered) = unique

\* two filtered rows with one key, written with different raw time tokens,
\* collapse to one
C4_Witness ==
    /\ pc = "rows_done"
    /\ Len(unique) >= 1
    /\ Len(unique) < Len(Filtered)
    /\ \E i \in 2..Len(body) :
          /\ body[i].kind = "time" /\ body[i - 1].kind = "time"
          /\ body[i].time # body[i - 1].time
          /\ ~Unmatched(body[i]) /\ ~Unmatched(body[i - 1])

\* the line just processed is a day header whose day number is no day of the
\* window start's month
InvalidHeaderDone ==
    /\ pc = "rows_loop"
    /\ idx >= 1
    /\ body[idx].kind = "header"
    /\ ~(body[idx].daynum \in 1..DaysInMonth(window[1].year, window[1].month))

DashAt(ts) == CHOOSE k \in 1..Len(ts) : k + 2 <= Len(ts) /\ SubSeq(ts, k, k + 2) = <<" ", "-", " ">>

HasDash(ts) == \E k \in 1..Len(ts) : k + 2 <= Len(ts) /\ SubSeq(ts, k, k + 2) = <<" ", "-", " ">>

LeftSide(ts) == SubSeq(ts, 1, DashAt(ts) - 1)

RightSide(ts) == SubSeq(ts, DashAt(ts) + 3, Len(ts))

\* the AM/PM marker a side of a Time string ends with, None when it has none
MarkerOf(side) ==
    IF Len(side) >= 3 /\ side[Len(side) - 2] = " " /\ SubSeq(side, Len(side) - 1, Len(side)) \in Meridiems
    THEN SubSeq(side, Len(side) - 1, Len(side))
    ELSE None

\* a side without its marker
ClockOf(side) == IF MarkerOf(side) = None THEN side ELSE SubSeq(side, 1, Len(side) - 3)

\* h:mm, h of one or two digits without a leading zero
IsClock(c) ==
    /\ Len(c) \in {4, 5}
    /\ c[Len(c) - 2] = ":"
    /\ AllDigits(SubSeq(c, 1, Len(c) - 3))
    /\ AllDigits(SubSeq(c, Len(c) - 1, Len(c)))
    /\ (Len(c) = 5 => c[1] # "0")

\* '<time> - <time>'
HasRangeForm(ts) == HasDash(ts) /\ IsClock(ClockOf(LeftSide(ts))) /\ IsClock(ClockOf(RightSide(ts)))

\* C8 as claimed: the Time string has the form '<time> - <time>' and either
\* both sides carry an AM/PM marker or neither does.
C8_ConsistentMeridiem ==
    pc = "time_done" =>
        /\ HasRangeForm(timeStr)
        /\ (MarkerOf(LeftSide(timeStr)) = None <=> MarkerOf(RightSide(timeStr)) = None)

\* C8, amended: the Time string has the form '<time> - <time>'; each side
\* carries its own token's marker, upper-cased, when the token has one; a
\* first token without a marker inherits the second token's marker; a second
\* token without a marker gets none, also when the first token has one.
C8_SecondMarkerInherited ==
    pc = "time_done" =>
        /\ HasRangeForm(timeStr)
        /\ MarkerOf(RightSide(timeStr)) = FindMeridiem(tok2)
        /\ MarkerOf(LeftSide(timeStr)) =
              IF FindMeridiem(tok1) # None THEN FindMeridiem(tok1) ELSE FindMeridiem(tok2)

\* a first token without a marker took the PM of the second
C8_Witness ==
    /\ pc = "time_done"
    /\ FindMeridiem(tok1) = None
    /\ FindMeridiem(tok2) = <<"P", "M">>
    /\ MarkerOf(LeftSide(timeStr)) = <<"P", "M">>
    /\ MarkerOf(RightSide(timeStr)) = <<"P", "M">>

\* the score line 142 computes for the message at position i of the loop
ScoreAt(i) == looks_like_schedule(msgs[i].subject, msgs[i].text)

\* the positions of the loop whose message has body text
WithText == {i \in 1..Len(msgs) : msgs[i].text # <<>>}

\* the first position among ps whose score no position of ps exceeds
FirstBest(ps) ==
    CHOOSE i \in ps :
        /\ \A j \in ps : ScoreAt(j) <= ScoreAt(i)
        /\ \A j \in ps : ScoreAt(j) = ScoreAt(i) => i <= j

\* C9: for a non-empty list of messages that all have body text, the
\* selector returns the message with the maximal looks_like_schedule score,
\* the earliest in evaluation order among those with that score; the
\* sentinel keeps no candidate from being chosen.
C9_MaxScoreEarliest ==
    (pc = "fetch_done" /\ resp # <<>> /\ WithText = 1..Len(msgs)) =>
        /\ fetched # None
        /\ fetched = Some(msgs[FirstBest(1..Len(msgs))])
        /\ best_score = ScoreAt(FirstBest(1..Len(msgs)))
        /\ \A i \in 1..Len(msgs) : msgs[i].id > fetched[1].id => ScoreAt(i) < best_score

\* two messages tie for the maximal score and the one evaluated first (the
\* higher id), listed last by the mail service, is returned
C9_Witness ==
    /\ pc = "fetch_done"
    /\ Len(msgs) >= 2
    /\ WithText = 1..Len(msgs)
    /\ fetched # None
    /\ \E i, j \in 1..Len(msgs) :
          /\ i < j
          /\ fetched[1] = msgs[i]
          /\ ScoreAt(j) = ScoreAt(i)
          /\ ScoreAt(i) < 0
    /\ resp[Len(resp)] = fetched[1]

\* C10 as claimed: a candidate with empty body text stays eligible with
\* score 0: for a non-empty list the selector returns a candidate, one with
\* empty body text when no candidate scores higher than 0, and never one
\* with empty body text when another candidate scores higher.
C10_EmptyBodyEligible ==
    (pc = "fetch_done" /\ resp # <<>>) =>
        /\ fetched # None
        /\ ((\E i \in 1..Len(msgs) : msgs[i].text = <<>>)
              /\ (\A i \in WithText : ScoreAt(i) < 0))
            => fetched[1].text = <<>>
        /\ fetched[1].text = <<>> => \A i \in WithText : ScoreAt(i) <= 0

\* C10, amended: a candidate with empty body text is skipped without being
\* scored and is never returned; when every fetched message has empty body
\* text the selector returns the 'none found' signal; otherwise it returns
\* the best-scoring candidate, earliest first, among those with body text.
C10_EmptyBodySkipped ==
    /\ pc = "fetch_done" =>
          /\ fetched # None => fetched[1].text # <<>>
          /\ WithText = {} => fetched = None
          /\ WithText # {} => fetched = Some(msgs[FirstBest(WithText)])
    /\ (pc = "fetch_loop" /\ best # None) => best[1].text # <<>>

\* a non-empty list of messages, all with empty body text: none found
C10_Witness ==
    /\ pc = "fetch_done"
    /\ Len(msgs) >= 2
    /\ WithText = {}
    /\ fetched = None

\* the calendar dates of [window.start, window.end]
WindowDates == {AddDays(window[1], k) : k \in 0..DiffDays(window[2], window[1])}

\* the line has a time range with fields after it: the loop extracts a row
Emits(ln) == ln.kind \in {"header", "time"} /\ ln.time # NoTime /\ ln.time[1].tail # <<>>

\* the lines a row is extracted from under the day header at line i: the
\* header's own time range and the time-range lines up to the next header
LinesUnder(i) ==
    {j \in i..Len(body) :
        /\ Emits(body[j])
        /\ \A k \in (i + 1)..j : body[k].kind # "header"}

\* C11: with the name filter off, the rows extracted under a day header
\* whose day number is the day-of-month of a date inside [window.start,
\* window.end] are attributed to that date and are in parse_rows' result,
\* also when the window spans a month boundary.
C11_InWindowHeaderKept ==
    (pc = "rows_done" /\ ~filter_by_name) =>
        \A i \in 1..Len(body) : \A d \in WindowDates :
            (body[i].kind = "header" /\ body[i].daynum = d.day) =>
                \A j \in LinesUnder(i) :
                    \E u \in 1..Len(unique) :
                        KeyOf(unique[u]) =
                            KeyOf(RowOf(d, Capitalize(body[i].weekday), body[j].time[1]))

====
